---- MODULE Spec2Model ----
(***************************************************************************)
(* Model of src/args.ts (latest revision, lines 582-898): the schema-driven *)
(* argument processing of deno-cli.  processArgs derives a parser           *)
(* configuration from a Zod schema, parses the raw tokens with parseArgs,   *)
(* expands aliases, converts kebab-case keys to camelCase, and then either  *)
(* prints help (exit 0), returns the validated arguments, or reports the    *)
(* validation issues (exit 1).                                              *)
(*                                                                         *)
(* Strings that the code inspects character by character (field keys, flag *)
(* names, alias tokens) are sequences of one-character strings.  JavaScript *)
(* objects are ordered association lists (sequences of <<key, value>>), so  *)
(* that property insertion order, which for..in and Object.entries follow,  *)
(* is part of the model.                                                    *)
(***************************************************************************)
EXTENDS Integers, Sequences, FiniteSets, TLC

VARIABLES
    zodSchema,            \* options.zodSchema: the schema's shape, in declaration order
    rawDenoArgs,          \* the raw token list handed to processArgs
    options,              \* caller-supplied parseArgsOptions / helpSections / customHelpGeneration
    pc,                   \* position of the invocation in processArgs
    ensuredParseOptions,  \* the configuration handed to parseArgs (line 784)
    finalHelpSections,    \* the help sections in use (line 768-780)
    rawArgs,              \* parseArgs' result (line 795)
    camelCasedArgs,       \* the normalised map handed to validation (line 798-835)
    validatedArgs,        \* the value returned to the caller (line 870-871)
    issues,               \* the issues of a failed validation (line 877)
    stdout,               \* what console.info printed, in order
    stderr,               \* what console.error printed, in order
    exitCode,             \* Deno.exit's argument, or NoExit while the process lives
    trace,                \* history: the states of the invocation, in order
    key,                  \* name round trip: the field key under conversion
    kebabKey,             \* name round trip: camelToKebab(key)
    camelKey,             \* name round trip: kebabToCamel(kebabKey)
    generatedParseOptions,  \* generateOptionsFromSchema's configuration (line 771)
    generatedHelpSections,  \* generateOptionsFromSchema's help sections (line 771)
    console               \* the console.info / console.error calls, in order

vars == <<zodSchema, rawDenoArgs, options, pc, ensuredParseOptions, finalHelpSections,
          rawArgs, camelCasedArgs, validatedArgs, issues, stdout, stderr, exitCode,
          trace, key, kebabKey, camelKey, generatedParseOptions,
          generatedHelpSections, console>>

procVars == <<zodSchema, rawDenoArgs, options, pc, ensuredParseOptions, finalHelpSections,
              rawArgs, camelCasedArgs, validatedArgs, issues, stdout, stderr, exitCode,
              trace>>

nameVars == <<key, kebabKey, camelKey>>

genVars == <<generatedParseOptions, generatedHelpSections>>

-----------------------------------------------------------------------------
(* Characters and case mapping (String.prototype.toLowerCase / toUpperCase  *)
(* on the ASCII letters the flag names are made of).                        *)

LowerChars == <<"a","b","c","d","e","f","g","h","i","j","k","l","m",
                "n","o","p","q","r","s","t","u","v","w","x","y","z">>

UpperChars == <<"A","B","C","D","E","F","G","H","I","J","K","L","M",
                "N","O","P","Q","R","S","T","U","V","W","X","Y","Z">>

DigitChars == <<"0","1","2","3","4","5","6","7","8","9">>

Range(s) == {s[i] : i \in DOMAIN s}

IsLower(c) == c \in Range(LowerChars)

IsUpper(c) == c \in Range(UpperChars)

IsDigit(c) == c \in Range(DigitChars)

IndexOf(s, c) == CHOOSE i \in DOMAIN s : s[i] = c

toLowerCase(c) == IF IsUpper(c) THEN LowerChars[IndexOf(UpperChars, c)] ELSE c

toUpperCase(c) == IF IsLower(c) THEN UpperChars[IndexOf(LowerChars, c)] ELSE c

Drop(s, n) == SubSeq(s, n + 1, Len(s))

-----------------------------------------------------------------------------
(* camelToKebab, line 613-615:                                              *)
(*   str.replace(/([a-z0-9])([A-Z])/g, "$1-$2").toLowerCase()               *)
(* The global replace scans left to right; a match consumes both characters *)
(* and the scan resumes after them.                                         *)

RECURSIVE InsertHyphens(_)
InsertHyphens(str) ==
    IF Len(str) = 0 THEN << >>
    ELSE IF /\ Len(str) >= 2
            /\ (IsLower(str[1]) \/ IsDigit(str[1]))
            /\ IsUpper(str[2])
         THEN <<str[1], "-", str[2]>> \o InsertHyphens(Drop(str, 2))
         ELSE <<str[1]>> \o InsertHyphens(Drop(str, 1))

LowerAll(str) == [i \in DOMAIN str |-> toLowerCase(str[i])]

camelToKebabNoHyphen(str) == LowerAll(str)

camelToKebab(str) == LowerAll(InsertHyphens(str))

(* kebabToCamel, line 618-620:                                              *)
(*   str.replace(/-([a-z])/g, (g) => g[1].toUpperCase())                    *)

RECURSIVE kebabToCamelKeepHyphen(_)
kebabToCamelKeepHyphen(str) ==
    IF Len(str) = 0 THEN << >>
    ELSE IF Len(str) >= 2 /\ str[1] = "-" /\ IsLower(str[2])
         THEN <<"-", toUpperCase(str[2])>> \o kebabToCamelKeepHyphen(Drop(str, 2))
         ELSE <<str[1]>> \o kebabToCamelKeepHyphen(Drop(str, 1))

kebabToCamelIdentity(str) == str

RECURSIVE kebabToCamel(_)
kebabToCamel(str) ==
    IF Len(str) = 0 THEN << >>
    ELSE IF Len(str) >= 2 /\ str[1] = "-" /\ IsLower(str[2])
         THEN <<toUpperCase(str[2])>> \o kebabToCamel(Drop(str, 2))
         ELSE <<str[1]>> \o kebabToCamel(Drop(str, 1))

-----------------------------------------------------------------------------
(* JavaScript values.  Every scalar is a string; the two booleans and       *)
(* undefined are tagged strings, so that "" (what parseArgs records for a   *)
(* string flag without a value) stays distinct from false.                  *)

BTrue == "<true>"

BFalse == "<false>"

Undefined == "<undefined>"

\* JavaScript truthiness of a scalar (line 838: if (camelCasedArgs.help)).
Truthy(v) == v # "" /\ v # BFalse /\ v # Undefined

(* Plain objects: ordered lists of <<key, value>>.  Assigning to an         *)
(* existing property keeps its position, a new property goes last.          *)

NoProps == << >>

Has(obj, k) == \E i \in DOMAIN obj : obj[i][1] = k

Get(obj, k) ==
    IF Has(obj, k) THEN obj[CHOOSE i \in DOMAIN obj : obj[i][1] = k][2] ELSE Undefined

Put(obj, k, v) ==
    IF Has(obj, k)
    THEN [i \in DOMAIN obj |-> IF obj[i][1] = k THEN <<k, v>> ELSE obj[i]]
    ELSE Append(obj, <<k, v>>)

Keys(obj) == [i \in DOMAIN obj |-> obj[i][1]]

KeySet(obj) == {obj[i][1] : i \in DOMAIN obj}

-----------------------------------------------------------------------------
(* Zod field schemas as the code reads them: _def.typeName, _def.innerType, *)
(* _def.defaultValue(), _def.values, meta(), description, isOptional().     *)

NoMeta == [alias |-> << >>, description |-> ""]

ZodBase(typeName, values) ==
    [typeName |-> typeName, values |-> values, innerType |-> << >>,
     defaultValue |-> Undefined, rejects |-> {}, throwsOn |-> {},
     message |-> "", path |-> << >>, meta |-> NoMeta, description |-> ""]

ZodString == ZodBase("ZodString", << >>)

ZodBoolean == ZodBase("ZodBoolean", << >>)

ZodNumber == ZodBase("ZodNumber", << >>)

ZodEnum(values) == ZodBase("ZodEnum", values)

\* a base type the routing of line 700-720 does not name
ZodArray == ZodBase("ZodArray", << >>)

ZodWrap(typeName, inner, dflt) ==
    [typeName |-> typeName, values |-> << >>, innerType |-> inner,
     defaultValue |-> dflt, rejects |-> {}, throwsOn |-> {},
     message |-> "", path |-> << >>, meta |-> NoMeta, description |-> ""]

ZodOptional(inner) == ZodWrap("ZodOptional", inner, Undefined)

ZodNullable(inner) == ZodWrap("ZodNullable", inner, Undefined)

ZodDefault(inner, dflt) == ZodWrap("ZodDefault", inner, dflt)

\* .transform(f).refine(p): p rejects the values in rejects, f throws on throwsOn
ZodEffects(inner, rejects, throwsOn) ==
    [ZodWrap("ZodEffects", inner, Undefined) EXCEPT !.rejects = rejects,
                                                    !.throwsOn = throwsOn]

\* .transform(f).refine(p, {message, path}): the issue of p carries the
\* message and, below the field's key, the path segments
ZodRefine(inner, rejects, throwsOn, message, path) ==
    [ZodEffects(inner, rejects, throwsOn) EXCEPT !.message = message, !.path = path]

\* .describe(text).meta({alias}) on the outermost instance (src/schemas.ts:11).
WithMeta(def, alias, description) ==
    [def EXCEPT !.meta = [alias |-> alias, description |-> ""],
                !.description = description]

IsWrapper(typeName) ==
    typeName \in {"ZodDefault", "ZodOptional", "ZodNullable", "ZodEffects"}

-----------------------------------------------------------------------------
(* zodSchema.parse, called at line 870: the object schema validates each    *)
(* declared field of its shape, drops the keys it does not declare, and     *)
(* either returns the typed object or throws a ZodError with the issues; an *)
(* exception thrown by a transform propagates as it is.                     *)

TypeOf(v) ==
    CASE v = Undefined -> "undefined"
      [] v \in {BTrue, BFalse} -> "boolean"
      [] OTHER -> "string"

Ok(v) == [status |-> "ok", value |-> v, code |-> "", message |-> "", path |-> << >>]

\* the message zod gives an issue that brings none of its own
DefaultMessage(code) ==
    CASE code = "invalid_type" -> "Invalid input"
      [] code = "invalid_enum_value" -> "Invalid option"
      [] OTHER -> "Invalid input"

Issue(code) ==
    [status |-> "issue", value |-> Undefined, code |-> code,
     message |-> DefaultMessage(code), path |-> << >>]

Thrown ==
    [status |-> "throw", value |-> Undefined, code |-> "", message |-> "",
     path |-> << >>]

RECURSIVE ParseField(_, _)
ParseField(def, v) ==
    CASE def.typeName = "ZodDefault" ->
            IF v = Undefined THEN Ok(def.defaultValue) ELSE ParseField(def.innerType, v)
      [] def.typeName = "ZodOptional" ->
            IF v = Undefined THEN Ok(Undefined) ELSE ParseField(def.innerType, v)
      [] def.typeName = "ZodNullable" -> ParseField(def.innerType, v)
      [] def.typeName = "ZodEffects" ->
            LET inner == ParseField(def.innerType, v)
            IN  IF inner.status # "ok" THEN inner
                ELSE IF inner.value \in def.throwsOn THEN Thrown
                ELSE IF inner.value \in def.rejects
                     THEN [Issue("custom") EXCEPT
                              !.message = IF def.message # "" THEN def.message ELSE @,
                              !.path = def.path]
                ELSE inner
      [] def.typeName = "ZodString" ->
            IF TypeOf(v) = "string" THEN Ok(v) ELSE Issue("invalid_type")
      [] def.typeName = "ZodBoolean" ->
            IF TypeOf(v) = "boolean" THEN Ok(v) ELSE Issue("invalid_type")
      [] def.typeName = "ZodNumber" -> Issue("invalid_type")
      [] def.typeName = "ZodEnum" ->
            IF TypeOf(v) # "string" THEN Issue("invalid_type")
            ELSE IF v \in Range(def.values) THEN Ok(v)
            ELSE Issue("invalid_enum_value")
      [] OTHER -> Issue("invalid_type")

RECURSIVE ParseShape(_, _, _)
ParseShape(shape, input, acc) ==
    IF Len(shape) = 0 \/ acc.thrown THEN acc
    ELSE LET field == Head(shape)
             r == ParseField(field.def, Get(input, field.key))
         IN  ParseShape(Tail(shape), input,
                CASE r.status = "throw" -> [acc EXCEPT !.thrown = TRUE]
                  [] r.status = "issue" ->
                        [acc EXCEPT !.issues =
                            Append(@, [path |-> <<field.key>> \o r.path,
                                       code |-> r.code, message |-> r.message])]
                  [] OTHER ->
                        IF r.value = Undefined THEN acc
                        ELSE [acc EXCEPT !.data = Put(@, field.key, r.value)])

ZodParse(schema, input) ==
    ParseShape(schema, input, [data |-> NoProps, issues |-> << >>, thrown |-> FALSE])

\* required decided from the names of the wrapper layers
RECURSIVE isOptionalByLayerName(_)
isOptionalByLayerName(def) ==
    IF def.typeName \in {"ZodOptional", "ZodNullable", "ZodDefault"} THEN TRUE
    ELSE IF def.typeName = "ZodEffects" THEN isOptionalByLayerName(def.innerType)
    ELSE FALSE

\* fieldSchema.isOptional(), line 727: safeParse(undefined).success; an
\* exception thrown by a transform on the way leaves isOptional as it is
isOptionalThrows(def) == ParseField(def, Undefined).status = "throw"

isOptional(def) == ParseField(def, Undefined).status = "ok"

-----------------------------------------------------------------------------
(* generateOptionsFromSchema, line 636-749.                                 *)

HelpKey == <<"h", "e", "l", "p">>

HelpAlias == <<"h">>

\* "--help, -h", the option label of line 738
HelpOptionName == <<"-", "-">> \o HelpKey \o <<",", " ", "-">> \o HelpAlias

\* line 643-648: the empty configuration every call starts from
EmptyParseOptions ==
    [string |-> << >>, boolean |-> << >>, booleanIsArray |-> TRUE,
     alias |-> NoProps, default |-> NoProps]

\* the loop recording _def.defaultValue itself instead of calling it
RECURSIVE UnwrapUncalledDefault(_, _, _)
UnwrapUncalledDefault(def, kebab, dflt) ==
    IF IsWrapper(def.typeName)
    THEN UnwrapUncalledDefault(def.innerType, kebab,
                IF def.typeName = "ZodDefault"
                THEN Put(dflt, kebab, "<function>")
                ELSE dflt)
    ELSE [unwrappedDef |-> def, default |-> dflt]

\* line 684-697: peel the wrapper layers, recording each ZodDefault's value
RECURSIVE Unwrap(_, _, _)
Unwrap(def, kebab, dflt) ==
    IF IsWrapper(def.typeName)
    THEN Unwrap(def.innerType, kebab,
                IF def.typeName = "ZodDefault"
                THEN Put(dflt, kebab, def.defaultValue)
                ELSE dflt)
    ELSE [unwrappedDef |-> def, default |-> dflt]

\* values.join("|"), line 715
RECURSIVE Join(_, _)
Join(values, sep) ==
    IF Len(values) = 0 THEN << >>
    ELSE IF Len(values) = 1 THEN <<values[1]>>
    ELSE <<values[1], sep>> \o Join(Tail(values), sep)

\* a hint for every base type the routing names, booleans included
TypeHintAlsoBoolean(def) ==
    CASE def.typeName = "ZodString" -> <<"<string>">>
      [] def.typeName = "ZodNumber" -> <<"<number>">>
      [] def.typeName = "ZodBoolean" -> <<"<boolean>">>
      [] def.typeName = "ZodEnum" -> <<"<">> \o Join(def.values, "|") \o <<">">>
      [] OTHER -> << >>

\* line 700-720: the type hint of the unwrapped type ("" for none)
TypeHint(def) ==
    CASE def.typeName = "ZodString" -> <<"<string>">>
      [] def.typeName = "ZodNumber" -> <<"<number>">>
      [] def.typeName = "ZodEnum" -> <<"<">> \o Join(def.values, "|") \o <<">">>
      [] OTHER -> << >>

\* line 651-733: the loop body for one field of schema.shape; an exception
\* thrown by isOptional() (line 727) leaves the loop and the function
GenerateField(acc, field) ==
    IF isOptionalThrows(field.def) THEN [acc EXCEPT !.thrown = TRUE] ELSE
    LET fieldSchema == field.def
        kebab == camelToKebab(field.key)
        meta == fieldSchema.meta
        finalDescription ==
            IF meta.description # "" THEN meta.description ELSE fieldSchema.description
        aliasString == meta.alias
        optionName ==
            IF aliasString # << >>
            THEN <<"-", "-">> \o kebab \o <<",", " ", "-">> \o aliasString
            ELSE <<"-", "-">> \o kebab
        aliasTable ==
            IF aliasString # << >>
            THEN Put(acc.parse.alias, aliasString, kebab)
            ELSE acc.parse.alias
        unwrapped == Unwrap(fieldSchema, kebab, acc.parse.default)
        typeName == unwrapped.unwrappedDef.typeName
        pushed == IF aliasString # << >> THEN <<kebab, aliasString>> ELSE <<kebab>>
        typeHint == TypeHint(unwrapped.unwrappedDef)
        helpText ==
            <<finalDescription>>
            \o (IF typeHint # << >> THEN <<" (">> \o typeHint \o <<")">> ELSE << >>)
            \o (IF Get(unwrapped.default, kebab) # Undefined
                THEN <<" (default: ", Get(unwrapped.default, kebab), ")">>
                ELSE << >>)
            \o (IF ~isOptional(fieldSchema) THEN <<" (required)">> ELSE << >>)
    IN  [parse |->
            [string |-> IF typeName = "ZodBoolean"
                        THEN acc.parse.string
                        ELSE acc.parse.string \o pushed,
             boolean |-> IF typeName = "ZodBoolean"
                         THEN acc.parse.boolean \o pushed
                         ELSE acc.parse.boolean,
             booleanIsArray |-> TRUE,
             alias |-> aliasTable,
             default |-> unwrapped.default],
         help |-> Put(acc.help, optionName, helpText),
         thrown |-> FALSE]

RECURSIVE GenerateFields(_, _)
GenerateFields(shape, acc) ==
    IF Len(shape) = 0 \/ acc.thrown THEN acc
    ELSE GenerateFields(Tail(shape), GenerateField(acc, Head(shape)))

\* the help alias added only where no field has taken the token
AddHelpOptionKeepAlias(acc) ==
    [parse |-> [acc.parse EXCEPT !.alias = IF Has(acc.parse.alias, HelpAlias)
                                           THEN acc.parse.alias
                                           ELSE Put(acc.parse.alias, HelpAlias, HelpKey),
                                 !.boolean = Append(acc.parse.boolean, HelpKey)],
     help |-> Put(acc.help, HelpOptionName, <<"show help">>),
     thrown |-> acc.thrown]

\* the help flag registered with the parser but left out of the help text
AddHelpOptionUnlisted(acc) ==
    [parse |-> [acc.parse EXCEPT !.alias = Put(acc.parse.alias, HelpAlias, HelpKey),
                                 !.boolean = Append(acc.parse.boolean, HelpKey)],
     help |-> acc.help,
     thrown |-> acc.thrown]

\* line 735-738: the help flag, added after every field
AddHelpOption(acc) ==
    [parse |-> [acc.parse EXCEPT !.alias = Put(acc.parse.alias, HelpAlias, HelpKey),
                                 !.boolean = Append(acc.parse.boolean, HelpKey)],
     help |-> Put(acc.help, HelpOptionName, <<"show help">>),
     thrown |-> acc.thrown]

generateOptionsFromSchema(schema) ==
    LET acc == AddHelpOption(
                   GenerateFields(schema, [parse |-> EmptyParseOptions,
                                           help |-> NoProps, thrown |-> FALSE]))
    IN  [generatedParseOptions |-> acc.parse,
         generatedHelpSections |-> <<[title |-> "Options", options |-> acc.help]>>,
         thrown |-> acc.thrown]

-----------------------------------------------------------------------------
(* parseArgs of jsr:@std/cli/parse-args (imported at line 582, called at    *)
(* line 795), for the token forms of the model: "--name", "-x" and plain    *)
(* values.  A flag's value is also recorded under every name the alias      *)
(* table links it to, declared booleans that were not supplied are false,   *)
(* and a default fills a key that was not supplied.                         *)

Sentinel == <<"_">>

LongFlag(name) == [kind |-> "long", name |-> name, text |-> ""]

ShortFlag(name) == [kind |-> "short", name |-> name, text |-> ""]

Value(text) == [kind |-> "value", name |-> << >>, text |-> text]

\* ordered set insertion (Set.prototype.add)
AddTo(seq, x) == IF x \in Range(seq) THEN seq ELSE Append(seq, x)

RECURSIVE AddAll(_, _)
AddAll(seq, xs) ==
    IF Len(xs) = 0 THEN seq ELSE AddAll(AddTo(seq, Head(xs)), Tail(xs))

\* aliasMap: every alias entry links both names to each other
RECURSIVE BuildAliasMap(_, _)
BuildAliasMap(alias, aliasMap) ==
    IF Len(alias) = 0 THEN aliasMap
    ELSE LET k == Head(alias)[1]
             v == Head(alias)[2]
         IN  BuildAliasMap(Tail(alias), Put(Put(aliasMap, k, <<v>>), v, <<k>>))

AliasesOf(aliasMap, k) == IF Has(aliasMap, k) THEN Get(aliasMap, k) ELSE << >>

\* booleanSet / stringSet: the listed names and the names linked to them
RECURSIVE FlagSet(_, _, _)
FlagSet(names, aliasMap, set) ==
    IF Len(names) = 0 THEN set
    ELSE IF Head(names) = << >>
         THEN FlagSet(Tail(names), aliasMap, set)
         ELSE FlagSet(Tail(names), aliasMap,
                      AddAll(AddTo(set, Head(names)), AliasesOf(aliasMap, Head(names))))

RECURSIVE PutAll(_, _, _)
PutAll(argv, names, value) ==
    IF Len(names) = 0 THEN argv
    ELSE PutAll(Put(argv, Head(names), value), Tail(names), value)

\* setArgument: the key and every name linked to it receive the value
setArgument(argv, aliasMap, k, value) ==
    PutAll(Put(argv, k, value), AliasesOf(aliasMap, k), value)

IsBooleanString(text) == text \in {"true", "false"}

ParseBooleanString(text) == IF text = "false" THEN BFalse ELSE BTrue

\* the argument loop: one flag (with the value it consumes) or one positional
RECURSIVE ParseLoop(_, _, _, _, _)
ParseLoop(args, argv, aliasMap, booleanSet, stringSet) ==
    IF Len(args) = 0 THEN argv
    ELSE LET arg == Head(args)
             k == arg.name
             hasNext == Len(args) >= 2 /\ ~(args[2].kind = "value" /\ args[2].text = "")
             takesNext ==
                 /\ hasNext
                 /\ args[2].kind = "value"
                 /\ k \notin Range(booleanSet)
                 /\ \A a \in Range(AliasesOf(aliasMap, k)) : a \notin Range(booleanSet)
             takesBool ==
                 /\ hasNext
                 /\ ~takesNext
                 /\ args[2].kind = "value"
                 /\ IsBooleanString(args[2].text)
         IN  IF arg.kind = "value"
             THEN ParseLoop(Tail(args),
                            Put(argv, Sentinel, Append(Get(argv, Sentinel), arg.text)),
                            aliasMap, booleanSet, stringSet)
             ELSE IF takesNext
             THEN ParseLoop(Drop(args, 2),
                            setArgument(argv, aliasMap, k, args[2].text),
                            aliasMap, booleanSet, stringSet)
             ELSE IF takesBool
             THEN ParseLoop(Drop(args, 2),
                            setArgument(argv, aliasMap, k, ParseBooleanString(args[2].text)),
                            aliasMap, booleanSet, stringSet)
             ELSE ParseLoop(Tail(args),
                            setArgument(argv, aliasMap, k,
                                        IF k \in Range(stringSet) THEN "" ELSE BTrue),
                            aliasMap, booleanSet, stringSet)

\* defaults fill the keys (and their linked names) that were not supplied
RECURSIVE ApplyDefaults(_, _, _)
ApplyDefaults(argv, defaults, aliasMap) ==
    IF Len(defaults) = 0 THEN argv
    ELSE LET k == Head(defaults)[1]
             v == Head(defaults)[2]
         IN  ApplyDefaults(IF Has(argv, k) THEN argv ELSE setArgument(argv, aliasMap, k, v),
                           Tail(defaults), aliasMap)

\* declared booleans that were not supplied are false
RECURSIVE FillBooleans(_, _)
FillBooleans(argv, booleanSet) ==
    IF Len(booleanSet) = 0 THEN argv
    ELSE FillBooleans(IF Has(argv, Head(booleanSet))
                      THEN argv
                      ELSE Put(argv, Head(booleanSet), BFalse),
                      Tail(booleanSet))

parseArgs(args, parseOptions) ==
    LET aliasMap == BuildAliasMap(parseOptions.alias, NoProps)
        booleanSet == FlagSet(parseOptions.boolean, aliasMap, << >>)
        stringSet == FlagSet(parseOptions.string, aliasMap, << >>)
        parsed == ParseLoop(args, <<<<Sentinel, << >>>>>>, aliasMap, booleanSet, stringSet)
    IN  FillBooleans(ApplyDefaults(parsed, parseOptions.default, aliasMap), booleanSet)

-----------------------------------------------------------------------------
(* processArgs, line 760-898, up to the normalised map.                     *)

(* An optional property of the options object is a sequence of at most one *)
(* element: << >> when the caller left it out, <<x>> when it supplied x.    *)
Supplied(opt) == Len(opt) > 0

\* the schema introspected on every call
NeedsGenerationAlways(opts) == TRUE

\* line 770: if (!finalParseOptions || !finalHelpSections)
NeedsGeneration(opts) == ~Supplied(opts.parseArgsOptions) \/ ~Supplied(opts.helpSections)

\* line 771-774: the call is outside the try block of line 869
GenerationThrows(schema, opts) ==
    NeedsGeneration(opts) /\ generateOptionsFromSchema(schema).thrown

\* line 767-781: accept what the caller supplied, generate what is missing
FinalParseOptions(schema, opts) ==
    IF ~Supplied(opts.parseArgsOptions)
    THEN generateOptionsFromSchema(schema).generatedParseOptions
    ELSE opts.parseArgsOptions[1]

FinalHelpSections(schema, opts) ==
    IF ~Supplied(opts.helpSections)
    THEN generateOptionsFromSchema(schema).generatedHelpSections
    ELSE opts.helpSections[1]

\* the alias table rebuilt without the spread of the table in use
EnsureParseOptionsHelpAliasOnly(final) ==
    [final EXCEPT !.boolean =
                      (IF final.booleanIsArray THEN final.boolean ELSE << >>)
                      \o <<HelpKey>>,
                  !.booleanIsArray = TRUE,
                  !.alias = <<<<HelpAlias, HelpKey>>>>]

\* the configuration handed on as it is
EnsureParseOptionsNoHelp(final) ==
    [final EXCEPT !.boolean = IF final.booleanIsArray THEN final.boolean ELSE << >>,
                  !.booleanIsArray = TRUE]

\* line 784-793
EnsureParseOptions(final) ==
    [final EXCEPT !.boolean =
                      (IF final.booleanIsArray THEN final.boolean ELSE << >>)
                      \o <<HelpKey>>,
                  !.booleanIsArray = TRUE,
                  !.alias = Put(final.alias, HelpAlias, HelpKey)]

\* line 801-823: copy an alias' value onto its full name unless that is present
RECURSIVE ExpandAliases(_, _)
ExpandAliases(temp, alias) ==
    IF Len(alias) = 0 THEN temp
    ELSE LET a == Head(alias)[1]
             originalKebabKey == Head(alias)[2]
         IN  ExpandAliases(
                 IF Has(temp, a) /\ ~Has(temp, originalKebabKey)
                 THEN Put(temp, originalKebabKey, Get(temp, a))
                 ELSE temp,
                 Tail(alias))

\* the loop converting the named keys and leaving "_" behind
RECURSIVE CamelCaseKeysDropSentinel(_, _)
CamelCaseKeysDropSentinel(temp, camel) ==
    IF Len(temp) = 0 THEN camel
    ELSE LET k == Head(temp)[1]
             v == Head(temp)[2]
         IN  CamelCaseKeysDropSentinel(Tail(temp),
                 IF k = Sentinel THEN camel ELSE Put(camel, kebabToCamel(k), v))

\* line 825-835: every key but "_" goes from kebab-case to camelCase
RECURSIVE CamelCaseKeys(_, _)
CamelCaseKeys(temp, camel) ==
    IF Len(temp) = 0 THEN camel
    ELSE LET k == Head(temp)[1]
             v == Head(temp)[2]
         IN  CamelCaseKeys(Tail(temp),
                           Put(camel, IF k = Sentinel THEN k ELSE kebabToCamel(k), v))

\* line 838-865: what the help branch prints
HelpLine(line, title, opt, desc) ==
    [line |-> line, title |-> title, opt |-> opt, desc |-> desc]

RECURSIVE OptionLines(_)
OptionLines(opts) ==
    IF Len(opts) = 0 THEN << >>
    ELSE <<HelpLine("option", "", Head(opts)[1], Head(opts)[2])>> \o OptionLines(Tail(opts))

RECURSIVE SectionLines(_)
SectionLines(sections) ==
    IF Len(sections) = 0 THEN << >>
    ELSE <<HelpLine("title", Head(sections).title, << >>, << >>)>>
         \o OptionLines(Head(sections).options)
         \o SectionLines(Tail(sections))

HelpMessage(opts, sections) ==
    <<HelpLine("usage", "", << >>, << >>)>>
    \o (IF opts.commandDescription # ""
        THEN <<HelpLine("description", opts.commandDescription, << >>, << >>)>>
        ELSE << >>)
    \o SectionLines(sections)

\* a caller's renderer (README line 266-267): a text of its own made from the
\* three arguments of the call of line 840-844
CommandName == "example-cli"

customHelpGeneration(schema, commandName, commandDescription) ==
    <<HelpLine("custom", commandName, << >>, << >>),
      HelpLine("custom", commandDescription, << >>, << >>)>>
    \o [i \in DOMAIN schema |-> HelpLine("custom", "", schema[i].key, << >>)]

\* the built-in renderer used whether or not a renderer was supplied
HelpOutputBuiltIn(opts, schema, sections) ==
    [kind |-> "help", lines |-> HelpMessage(opts, sections)]

\* line 839-864: the text handed to console.info
HelpOutput(opts, schema, sections) ==
    IF opts.customHelpGeneration
    THEN [kind |-> "customHelp",
          lines |-> customHelpGeneration(schema, CommandName, opts.commandDescription)]
    ELSE [kind |-> "help", lines |-> HelpMessage(opts, sections)]

\* the first path segment standing for the whole path
JoinPathFirstSegment(path) == IF Len(path) = 0 THEN << >> ELSE path[1]

\* path.join("."), line 878-880
RECURSIVE JoinPath(_)
JoinPath(path) ==
    IF Len(path) = 0 THEN << >>
    ELSE IF Len(path) = 1 THEN path[1]
    ELSE path[1] \o <<".">> \o JoinPath(Tail(path))

\* line 877-884: one line per issue, "  - (issue) <path> (<code>): <message>"
IssueLines(iss) ==
    [i \in DOMAIN iss |-> [kind |-> "issue", path |-> JoinPath(iss[i].path),
                           code |-> iss[i].code, message |-> iss[i].message]]

Out(kind) == [kind |-> kind, path |-> << >>, code |-> "", message |-> ""]

\* exitCode while Deno.exit has not been called
NoExit == -1

\* Deno.exit(0), line 866
HelpExitCode == 0

\* the catch block leaving with the status of the help branch
FailureExitCodeZero == HelpExitCode

\* Deno.exit(1), line 896
FailureExitCode == 1

-----------------------------------------------------------------------------
(* Inputs: schemas, caller options and raw token lists.                     *)

\* at most this many arguments (a flag with its value, or one positional)
MaxArgs == 2

\* the longest field key of the name round trip
MaxKeyLen == 4

K_logLevel == <<"l", "o", "g", "L", "e", "v", "e", "l">>

K_name == <<"n", "a", "m", "e">>

K_verbose == <<"v", "e", "r", "b", "o", "s", "e">>

K_privateKey == <<"p", "r", "i", "v", "a", "t", "e", "K", "e", "y">>

K_host == <<"h", "o", "s", "t">>

K_force == <<"f", "o", "r", "c", "e">>

K_dryRun == <<"d", "r", "y", "-", "r", "u", "n">>

K_amount == <<"a", "m", "o", "u", "n", "t">>

K_unit == <<"u", "n", "i", "t">>

K_tags == <<"t", "a", "g", "s">>

Field(k, def) == [key |-> k, def |-> def]

\* src/schemas.ts:11
F_logLevel ==
    Field(K_logLevel,
          WithMeta(ZodDefault(ZodEnum(<<"debug", "info", "warn", "error">>), "info"),
                   <<"l">>, "log level"))

\* src/examples/simple_cli.ts:21-24
F_name == Field(K_name, WithMeta(ZodString, <<"N">>, "your name"))

\* src/examples/simple_cli.ts:25-28
F_verbose == Field(K_verbose, WithMeta(ZodOptional(ZodBoolean), <<"v">>, "verbose"))

\* src/schemas.ts:34
F_privateKey ==
    Field(K_privateKey, WithMeta(ZodOptional(ZodString), <<"k">>, "private key"))

\* README line 66-68: force: z.boolean().optional().default(false), alias F
F_force ==
    Field(K_force, WithMeta(ZodDefault(ZodOptional(ZodBoolean), BFalse), <<"F">>, "force"))

\* a text field with a default whose alias is the help alias
F_host == Field(K_host, WithMeta(ZodDefault(ZodString, "localhost"), <<"h">>, "host"))

\* README line 102-106: z.string().transform(f).refine(p, message), alias a;
\* here f throws on "Alice", p rejects "Bob" and reports it at amount.unit
F_amount ==
    Field(K_amount,
          WithMeta(ZodRefine(ZodString, {"Bob"}, {"Alice"}, "must be positive",
                             <<K_unit>>),
                   <<"a">>, "amount"))

\* z.string().optional().transform(f) with an f that throws on undefined
F_tags ==
    Field(K_tags, WithMeta(ZodEffects(ZodOptional(ZodString), {}, {Undefined}), <<"t">>, "tags"))

\* the example schema of the specification: BaseArgsSchema.extend({name})
ExampleSchema == <<F_logLevel, F_name>>

FlagSchema == <<F_name, F_verbose>>

KeySchema == <<F_privateKey, F_force>>

HostSchema == <<F_host>>

AmountSchema == <<F_amount>>

TagsSchema == <<F_tags>>

Schemas == {ExampleSchema, FlagSchema, KeySchema, HostSchema, AmountSchema, TagsSchema}

\* a schema whose aliases are pairwise distinct and none is the help alias
RECURSIVE AliasList(_)
AliasList(schema) ==
    IF Len(schema) = 0 THEN << >>
    ELSE (IF Head(schema).def.meta.alias # << >>
          THEN <<Head(schema).def.meta.alias>> ELSE << >>) \o AliasList(Tail(schema))

DistinctAliases(schema) ==
    LET al == AliasList(schema)
    IN  /\ \A i, j \in DOMAIN al : i # j => al[i] # al[j]
        /\ \A i \in DOMAIN al : al[i] # HelpAlias

\* customHelpThrows: the caller's renderer throws instead of returning
NoCallerOptions ==
    [parseArgsOptions |-> << >>, helpSections |-> << >>,
     customHelpGeneration |-> FALSE, customHelpThrows |-> FALSE,
     commandDescription |-> ""]

\* a hand-written configuration that names no help flag (README line 261-262)
CallerParseOptions ==
    [string |-> <<camelToKebab(K_logLevel), K_name>>, boolean |-> << >>,
     booleanIsArray |-> TRUE,
     alias |-> <<<<<<"N">>, K_name>>, <<<<"l">>, camelToKebab(K_logLevel)>>>>,
     default |-> <<<<camelToKebab(K_logLevel), "info">>>>]

\* a hand-written configuration that gives "h" to a field of its own and
\* passes boolean as a single name instead of an array
CallerHostOptions ==
    [string |-> <<K_host, HelpAlias>>, boolean |-> <<K_verbose>>,
     booleanIsArray |-> FALSE,
     alias |-> <<<<HelpAlias, K_host>>>>,
     default |-> NoProps]

\* src/examples/simple_cli.ts:31-45: exampleSchemaHelpInfo, commonHelpInfo
CallerHelpSections ==
    <<[title |-> "extra options",
       options |-> <<<<<<"-", "-">> \o K_name, <<"your name (required)">>>>,
                     <<<<"-", "-">> \o K_verbose, <<"verbose">>>>>>],
      [title |-> "common options",
       options |-> <<<<HelpOptionName, <<"show help">>>>>>]>>

\* a hand-written configuration and hand-written sections for the tags schema;
\* the sections list no help option
CallerTagsOptions ==
    [string |-> <<K_tags, <<"t">>>>, boolean |-> << >>, booleanIsArray |-> TRUE,
     alias |-> <<<<<<"t">>, K_tags>>>>, default |-> NoProps]

CallerTagsSections ==
    <<[title |-> "tag options",
       options |-> <<<<<<"-", "-">> \o K_tags, <<"tags">>>>>>]>>

Scenario(schema, opts, extra) == [schema |-> schema, options |-> opts, extra |-> extra]

Scenarios ==
    {Scenario(sch, NoCallerOptions, {LongFlag(K_dryRun)}) : sch \in Schemas}
    \cup
    {Scenario(ExampleSchema,
              [NoCallerOptions EXCEPT !.parseArgsOptions = <<CallerParseOptions>>], {}),
     Scenario(HostSchema,
              [NoCallerOptions EXCEPT !.parseArgsOptions = <<CallerHostOptions>>], {}),
     Scenario(FlagSchema,
              [NoCallerOptions EXCEPT !.helpSections = <<CallerHelpSections>>,
                                      !.commandDescription = "example"], {}),
     Scenario(KeySchema,
              [NoCallerOptions EXCEPT !.customHelpGeneration = TRUE], {}),
     Scenario(FlagSchema,
              [NoCallerOptions EXCEPT !.customHelpGeneration = TRUE,
                                      !.helpSections = <<CallerHelpSections>>,
                                      !.commandDescription = "example"], {}),
     Scenario(AmountSchema,
              [NoCallerOptions EXCEPT !.customHelpGeneration = TRUE,
                                      !.customHelpThrows = TRUE], {}),
     Scenario(TagsSchema,
              [NoCallerOptions EXCEPT !.parseArgsOptions = <<CallerTagsOptions>>,
                                      !.helpSections = <<CallerTagsSections>>], {})}

\* the values a user types
Values == {"debug", "Alice", "Bob"}

\* the flags of a schema's fields: each field's long flag and its alias
FieldFlags(schema) ==
    {LongFlag(camelToKebab(schema[i].key)) : i \in DOMAIN schema}
    \cup {ShortFlag(schema[i].def.meta.alias) :
            i \in {j \in DOMAIN schema : schema[j].def.meta.alias # << >>}}

HelpFlags == {LongFlag(HelpKey), ShortFlag(HelpAlias)}

\* the positional value a user types
Positional == "file"

\* one argument: a flag, a field's flag followed by a value, or a positional
ArgGroups(sc) ==
    {<<f>> : f \in FieldFlags(sc.schema) \cup HelpFlags \cup sc.extra}
    \cup {<<f, Value(v)>> : f \in FieldFlags(sc.schema), v \in Values}
    \cup {<<Value(Positional)>>}

RECURSIVE Flatten(_)
Flatten(groups) ==
    IF Len(groups) = 0 THEN << >> ELSE Head(groups) \o Flatten(Tail(groups))

TokenLists(sc) ==
    {Flatten(gs) : gs \in UNION {[1..n -> ArgGroups(sc)] : n \in 0..MaxArgs}}

-----------------------------------------------------------------------------
(* One invocation of processArgs as the state machine                       *)
(*   INIT -> PARSED -> (HELP_REQUESTED | VALIDATING)                        *)
(*        -> (HELP_EMITTED | VALIDATED | VALIDATION_FAILED).                *)

Init ==
    /\ \E sc \in Scenarios :
          /\ zodSchema = sc.schema
          /\ options = sc.options
          /\ rawDenoArgs \in TokenLists(sc)
    /\ pc = "INIT"
    /\ ensuredParseOptions = EmptyParseOptions
    /\ finalHelpSections = << >>
    /\ rawArgs = NoProps
    /\ camelCasedArgs = NoProps
    /\ validatedArgs = NoProps
    /\ issues = << >>
    /\ stdout = << >>
    /\ stderr = << >>
    /\ exitCode = NoExit
    /\ trace = <<"INIT">>
    /\ key = << >>
    /\ kebabKey = << >>
    /\ camelKey = << >>
    /\ generatedParseOptions = EmptyParseOptions
    /\ generatedHelpSections = << >>
    /\ console = << >>

\* line 767-835: build or accept the configuration, parse, normalise
Parse ==
    /\ pc = "INIT"
    /\ ~GenerationThrows(zodSchema, options)
    /\ LET ensured == EnsureParseOptions(FinalParseOptions(zodSchema, options))
           raw == parseArgs(rawDenoArgs, ensured)
           tempAliasedArgs == ExpandAliases(raw, ensured.alias)
       IN  /\ ensuredParseOptions' = ensured
           /\ finalHelpSections' = FinalHelpSections(zodSchema, options)
           /\ rawArgs' = raw
           /\ camelCasedArgs' = CamelCaseKeys(tempAliasedArgs, NoProps)
    /\ IF NeedsGeneration(options)
       THEN LET generated == generateOptionsFromSchema(zodSchema)
            IN  /\ generatedParseOptions' = generated.generatedParseOptions
                /\ generatedHelpSections' = generated.generatedHelpSections
       ELSE UNCHANGED genVars
    /\ pc' = "PARSED"
    /\ trace' = Append(trace, "PARSED")
    /\ UNCHANGED <<zodSchema, rawDenoArgs, options, validatedArgs, issues, stdout,
                   stderr, exitCode, nameVars, console>>

\* line 771-774: generateOptionsFromSchema throws and, the call being outside
\* the try block, the exception leaves processArgs
GenerationFails ==
    /\ pc = "INIT"
    /\ GenerationThrows(zodSchema, options)
    /\ pc' = "THREW"
    /\ trace' = Append(trace, "THREW")
    /\ UNCHANGED <<zodSchema, rawDenoArgs, options, ensuredParseOptions,
                   finalHelpSections, rawArgs, camelCasedArgs, validatedArgs, issues,
                   stdout, stderr, exitCode, nameVars, genVars, console>>

\* line 838: if (camelCasedArgs.help)
HelpRequested(args) == Truthy(Get(args, HelpKey))

RequestHelp ==
    /\ pc = "PARSED"
    /\ HelpRequested(camelCasedArgs)
    /\ pc' = "HELP_REQUESTED"
    /\ trace' = Append(trace, "HELP_REQUESTED")
    /\ UNCHANGED <<zodSchema, rawDenoArgs, options, ensuredParseOptions,
                   finalHelpSections, rawArgs, camelCasedArgs, validatedArgs, issues,
                   stdout, stderr, exitCode, nameVars, genVars, console>>

\* the help branch without its Deno.exit(0): execution runs on into validation
EmitHelpWithoutExit ==
    /\ pc = "HELP_REQUESTED"
    /\ stdout' = Append(stdout, [kind |-> "help",
                                  lines |-> HelpMessage(options, finalHelpSections)])
    /\ console' = Append(console, "help")
    /\ pc' = "VALIDATING"
    /\ trace' = Append(trace, "VALIDATING")
    /\ UNCHANGED <<zodSchema, rawDenoArgs, options, ensuredParseOptions,
                   finalHelpSections, rawArgs, camelCasedArgs, validatedArgs, issues,
                   stderr, exitCode, nameVars, genVars>>

\* line 839-866: print the help, Deno.exit(0)
EmitHelp ==
    /\ pc = "HELP_REQUESTED"
    /\ ~(options.customHelpGeneration /\ options.customHelpThrows)
    /\ stdout' = Append(stdout, HelpOutput(options, zodSchema, finalHelpSections))
    /\ IF options.customHelpGeneration
       THEN /\ stderr' = stderr
            /\ console' = Append(console, "customHelp")
       ELSE /\ stderr' = IF Len(finalHelpSections) = 0
                         THEN Append(stderr, Out("emptyHelpSections"))
                         ELSE stderr
            /\ console' = console
                           \o (IF Len(finalHelpSections) = 0
                               THEN <<"emptyHelpSections">> ELSE << >>)
                           \o <<"help">>
    /\ exitCode' = HelpExitCode
    /\ pc' = "HELP_EMITTED"
    /\ trace' = Append(trace, "HELP_EMITTED")
    /\ UNCHANGED <<zodSchema, rawDenoArgs, options, ensuredParseOptions,
                   finalHelpSections, rawArgs, camelCasedArgs, validatedArgs, issues,
                   nameVars, genVars>>

\* line 840-844: the caller's renderer throws and, the call being outside
\* the try block, the exception leaves processArgs
CustomHelpFails ==
    /\ pc = "HELP_REQUESTED"
    /\ options.customHelpGeneration /\ options.customHelpThrows
    /\ pc' = "THREW"
    /\ trace' = Append(trace, "THREW")
    /\ UNCHANGED <<zodSchema, rawDenoArgs, options, ensuredParseOptions,
                   finalHelpSections, rawArgs, camelCasedArgs, validatedArgs, issues,
                   stdout, stderr, exitCode, nameVars, genVars, console>>

\* line 869-870: enter the try block
Validate ==
    /\ pc = "PARSED"
    /\ ~HelpRequested(camelCasedArgs)
    /\ pc' = "VALIDATING"
    /\ trace' = Append(trace, "VALIDATING")
    /\ UNCHANGED <<zodSchema, rawDenoArgs, options, ensuredParseOptions,
                   finalHelpSections, rawArgs, camelCasedArgs, validatedArgs, issues,
                   stdout, stderr, exitCode, nameVars, genVars, console>>

ValidationSucceeds(r) == ~r.thrown /\ Len(r.issues) = 0

\* line 870-871: the schema accepts the map, the typed object is returned
ReturnValidated ==
    /\ pc = "VALIDATING"
    /\ LET r == ZodParse(zodSchema, camelCasedArgs)
       IN  /\ ValidationSucceeds(r)
           /\ validatedArgs' = r.data
    /\ pc' = "VALIDATED"
    /\ trace' = Append(trace, "VALIDATED")
    /\ UNCHANGED <<zodSchema, rawDenoArgs, options, ensuredParseOptions,
                   finalHelpSections, rawArgs, camelCasedArgs, issues, stdout, stderr,
                   exitCode, nameVars, genVars, console>>

\* the hint printed inside the ZodError branch only
CatchBlockOutputHintWithIssues(r) ==
    <<"validationFailed">>
    \o (IF r.thrown THEN <<"notZodError">>
        ELSE <<"isZodError">> \o [i \in DOMAIN r.issues |-> "issue"] \o <<"hint">>)

\* every caught error reported as a ZodError
CatchBlockOutputAlwaysZodError(r) ==
    <<"validationFailed", "isZodError">>
    \o [i \in DOMAIN r.issues |-> "issue"] \o <<"hint">>

\* line 873-895: the console calls of the catch block, in order
CatchBlockOutput(r) ==
    <<"validationFailed">>
    \o (IF r.thrown THEN <<"notZodError">>
        ELSE <<"isZodError">> \o [i \in DOMAIN r.issues |-> "issue"])
    \o <<"hint">>

\* line 872-897: the catch block reports and calls Deno.exit(1)
ReportFailure ==
    /\ pc = "VALIDATING"
    /\ LET r == ZodParse(zodSchema, camelCasedArgs)
       IN  /\ ~ValidationSucceeds(r)
           /\ issues' = IF r.thrown THEN << >> ELSE r.issues
           /\ stderr' = stderr \o <<Out("validationFailed")>>
                        \o (IF r.thrown THEN <<Out("notZodError")>> ELSE IssueLines(r.issues))
           /\ stdout' = stdout
                        \o (IF r.thrown THEN << >>
                            ELSE <<[kind |-> "isZodError", lines |-> << >>]>>)
                        \o <<[kind |-> "hint", lines |-> << >>]>>
           /\ console' = console \o CatchBlockOutput(r)
    /\ exitCode' = FailureExitCode
    /\ pc' = "VALIDATION_FAILED"
    /\ trace' = Append(trace, "VALIDATION_FAILED")
    /\ UNCHANGED <<zodSchema, rawDenoArgs, options, ensuredParseOptions,
                   finalHelpSections, rawArgs, camelCasedArgs, validatedArgs, nameVars, genVars>>

Next ==
    \/ Parse
    \/ GenerationFails
    \/ RequestHelp
    \/ EmitHelp
    \/ CustomHelpFails
    \/ Validate
    \/ ReturnValidated
    \/ ReportFailure

Spec == Init /\ [][Next]_vars

-----------------------------------------------------------------------------
(* Invocations in which the user also types a field's flag by the field's   *)
(* key (--logLevel, --privateKey) next to its externalName (--log-level,    *)
(* --private-key): parseArgs records an undeclared flag under the name that *)
(* was typed (line 795), so both spellings can be keys of one map.          *)

MergeScenarios ==
    {Scenario(ExampleSchema, NoCallerOptions, {LongFlag(K_logLevel)}),
     Scenario(KeySchema, NoCallerOptions, {LongFlag(K_privateKey)})}

MergeInit ==
    /\ \E sc \in MergeScenarios :
          /\ zodSchema = sc.schema
          /\ options = sc.options
          /\ rawDenoArgs \in TokenLists(sc)
    /\ pc = "INIT"
    /\ ensuredParseOptions = EmptyParseOptions
    /\ finalHelpSections = << >>
    /\ rawArgs = NoProps
    /\ camelCasedArgs = NoProps
    /\ validatedArgs = NoProps
    /\ issues = << >>
    /\ stdout = << >>
    /\ stderr = << >>
    /\ exitCode = NoExit
    /\ trace = <<"INIT">>
    /\ key = << >>
    /\ kebabKey = << >>
    /\ camelKey = << >>
    /\ generatedParseOptions = EmptyParseOptions
    /\ generatedHelpSections = << >>
    /\ console = << >>

MergeNext ==
    \/ Parse
    \/ RequestHelp
    \/ EmitHelp
    \/ Validate
    \/ ReturnValidated
    \/ ReportFailure

MergeSpec == MergeInit /\ [][MergeNext]_vars

-----------------------------------------------------------------------------
(* Several invocations in one process.  The caller keeps its schema, its    *)
(* options object and its token list and calls processArgs with them twice, *)
(* with at most MaxBetween invocations of other schemas in between; what a  *)
(* call leaves behind is what it wrote to objects that outlive it.          *)

\* processArgs (line 760-898) as a function of its arguments: how the call
\* ends and everything it printed or returned
processArgs(args, schema, opts) ==
    IF GenerationThrows(schema, opts)
    THEN [end |-> "THREW", exitCode |-> NoExit, stdout |-> << >>, stderr |-> << >>,
          console |-> << >>, value |-> NoProps]
    ELSE
    LET ensured == EnsureParseOptions(FinalParseOptions(schema, opts))
        sections == FinalHelpSections(schema, opts)
        camel == CamelCaseKeys(ExpandAliases(parseArgs(args, ensured), ensured.alias),
                               NoProps)
        r == ZodParse(schema, camel)
    IN  IF HelpRequested(camel)
        THEN IF opts.customHelpGeneration /\ opts.customHelpThrows
             THEN [end |-> "THREW", exitCode |-> NoExit, stdout |-> << >>,
                   stderr |-> << >>, console |-> << >>, value |-> NoProps]
             ELSE [end |-> "HELP_EMITTED", exitCode |-> HelpExitCode,
                   stdout |-> <<HelpOutput(opts, schema, sections)>>,
                   stderr |-> << >>,
                   console |-> IF opts.customHelpGeneration THEN <<"customHelp">>
                               ELSE <<"help">>,
                   value |-> NoProps]
        ELSE IF ValidationSucceeds(r)
        THEN [end |-> "VALIDATED", exitCode |-> NoExit, stdout |-> << >>,
              stderr |-> << >>, console |-> << >>, value |-> r.data]
        ELSE [end |-> "VALIDATION_FAILED", exitCode |-> FailureExitCode,
              stdout |-> << >>,
              stderr |-> IF r.thrown THEN << >> ELSE IssueLines(r.issues),
              console |-> CatchBlockOutput(r), value |-> NoProps]

\* "help" pushed onto the caller's own boolean array and h written into the
\* caller's own alias object
CallerOptionsWrittenTo(opts) ==
    IF Supplied(opts.parseArgsOptions)
    THEN [opts EXCEPT !.parseArgsOptions = <<EnsureParseOptions(opts.parseArgsOptions[1])>>]
    ELSE opts

\* line 784-793: ensuredParseOptions is a new object with a new boolean array
\* and a new alias object; options and what it refers to is only read
CallerOptionsAfterCall(opts) == opts

\* the invocations made in between at most
MaxBetween == 1

\* at most this many arguments in the repeated call
MaxSessionArgs == 1

SessionTokenLists(sc) ==
    {Flatten(gs) : gs \in UNION {[1..n -> ArgGroups(sc)] : n \in 0..MaxSessionArgs}}

\* another command of the same process: name is a boolean flag there
OtherSchema == <<Field(K_name, WithMeta(ZodBoolean, <<"l">>, "name"))>>

OtherCalls ==
    {[schema |-> OtherSchema, options |-> NoCallerOptions, args |-> << >>],
     [schema |-> OtherSchema, options |-> NoCallerOptions,
      args |-> <<ShortFlag(<<"l">>)>>],
     [schema |-> ExampleSchema,
      options |-> [NoCallerOptions EXCEPT !.parseArgsOptions = <<CallerParseOptions>>],
      args |-> <<LongFlag(K_name), Value("Alice")>>]}

SessionInit ==
    /\ \E sc \in Scenarios :
          /\ zodSchema = sc.schema
          /\ options = sc.options
          /\ rawDenoArgs \in SessionTokenLists(sc)
    /\ pc = "SESSION"
    /\ ensuredParseOptions = EmptyParseOptions
    /\ finalHelpSections = << >>
    /\ rawArgs = NoProps
    /\ camelCasedArgs = NoProps
    /\ validatedArgs = NoProps
    /\ issues = << >>
    /\ stdout = << >>
    /\ stderr = << >>
    /\ exitCode = NoExit
    /\ trace = << >>
    /\ key = << >>
    /\ kebabKey = << >>
    /\ camelKey = << >>
    /\ generatedParseOptions = EmptyParseOptions
    /\ generatedHelpSections = << >>
    /\ console = << >>

\* processArgs(rawDenoArgs, options) with the caller's own objects; trace
\* collects how each of these calls ended
Call ==
    /\ pc = "SESSION"
    /\ Len(trace) < 2
    /\ trace' = Append(trace, processArgs(rawDenoArgs, zodSchema, options))
    /\ options' = CallerOptionsAfterCall(options)
    /\ UNCHANGED <<zodSchema, rawDenoArgs, pc, ensuredParseOptions, finalHelpSections,
                   rawArgs, camelCasedArgs, validatedArgs, issues, stdout, stderr,
                   exitCode, nameVars, genVars, console>>

\* an invocation for another command, with objects of its own; console
\* collects how it ended
CallOther ==
    /\ pc = "SESSION"
    /\ Len(console) < MaxBetween
    /\ \E c \in OtherCalls :
          console' = Append(console, processArgs(c.args, c.schema, c.options))
    /\ UNCHANGED <<zodSchema, rawDenoArgs, options, pc, ensuredParseOptions,
                   finalHelpSections, rawArgs, camelCasedArgs, validatedArgs, issues,
                   stdout, stderr, exitCode, trace, nameVars, genVars>>

SessionNext == Call \/ CallOther

SessionSpec == SessionInit /\ [][SessionNext]_vars

-----------------------------------------------------------------------------
(* The name round trip: a field key is converted to its flag name by        *)
(* camelToKebab (line 653) and back by kebabToCamel (line 832).             *)

KeyChars == {"a", "b", "A", "B", "1"}

FieldKeys == UNION {[1..n -> KeyChars] : n \in 1..MaxKeyLen}

NameInit ==
    /\ key \in FieldKeys
    /\ kebabKey = << >>
    /\ camelKey = << >>
    /\ pc = "KEY"
    /\ zodSchema = << >>
    /\ rawDenoArgs = << >>
    /\ options = NoCallerOptions
    /\ ensuredParseOptions = EmptyParseOptions
    /\ finalHelpSections = << >>
    /\ rawArgs = NoProps
    /\ camelCasedArgs = NoProps
    /\ validatedArgs = NoProps
    /\ issues = << >>
    /\ stdout = << >>
    /\ stderr = << >>
    /\ exitCode = NoExit
    /\ trace = << >>
    /\ generatedParseOptions = EmptyParseOptions
    /\ generatedHelpSections = << >>
    /\ console = << >>

\* line 653: const kebabKey = camelToKebab(key)
ToKebab ==
    /\ pc = "KEY"
    /\ kebabKey' = camelToKebab(key)
    /\ pc' = "KEBAB"
    /\ UNCHANGED <<key, camelKey, zodSchema, rawDenoArgs, options, ensuredParseOptions,
                   finalHelpSections, rawArgs, camelCasedArgs, validatedArgs, issues,
                   stdout, stderr, exitCode, trace, genVars, console>>

\* line 832: camelCasedArgs[kebabToCamel(key)]
ToCamel ==
    /\ pc = "KEBAB"
    /\ camelKey' = kebabToCamel(kebabKey)
    /\ pc' = "CAMEL"
    /\ UNCHANGED <<key, kebabKey, zodSchema, rawDenoArgs, options, ensuredParseOptions,
                   finalHelpSections, rawArgs, camelCasedArgs, validatedArgs, issues,
                   stdout, stderr, exitCode, trace, genVars, console>>

NameNext == ToKebab \/ ToCamel

NameSpec == NameInit /\ [][NameNext]_vars

-----------------------------------------------------------------------------
(* Introspection on its own: generateOptionsFromSchema (line 636-749)       *)
(* applied to schemas whose first field is any chain of at most MaxWrappers *)
(* wrapper layers around a base type, with or without an alias, followed by *)
(* no field or by a field that declares the alias x.                        *)

\* the longest wrapper chain of a generated field
MaxWrappers == 2

GenBases == {ZodString, ZodBoolean, ZodNumber, ZodEnum(<<"debug", "info">>), ZodArray}

\* one more wrapper layer around a definition; a transform or refinement
\* accepts every value, rejects the absent value, or throws on it
Layers(inner) ==
    {ZodOptional(inner), ZodNullable(inner),
     ZodDefault(inner, "info"), ZodDefault(inner, "debug"),
     ZodEffects(inner, {}, {}), ZodEffects(inner, {Undefined}, {}),
     ZodEffects(inner, {}, {Undefined})}

RECURSIVE Chains(_)
Chains(n) ==
    IF n = 0 THEN GenBases
    ELSE LET shorter == Chains(n - 1)
         IN  shorter \cup UNION {Layers(d) : d \in shorter}

GenAlias == <<"x">>

GenAliases == {<< >>, GenAlias, HelpAlias}

SecondFields ==
    {<< >>,
     <<Field(K_name, WithMeta(ZodString, GenAlias, "name"))>>,
     <<Field(K_verbose, WithMeta(ZodBoolean, GenAlias, "verbose"))>>}

\* z.string().describe("inner").meta({alias: "x"}) below a wrapper layer that
\* carries no metadata, its own description, or its own alias and description
InnerMeta == WithMeta(ZodString, GenAlias, "inner")

MetaChains ==
    {ZodOptional(InnerMeta), ZodDefault(InnerMeta, "info"),
     WithMeta(ZodOptional(InnerMeta), << >>, "outer"),
     WithMeta(ZodOptional(InnerMeta), <<"y">>, "outer"),
     WithMeta(ZodOptional(InnerMeta), <<"y">>, "")}

GenSchemas ==
    {<<Field(K_logLevel, WithMeta(c, a, "level"))>> \o second :
        c \in Chains(MaxWrappers), a \in GenAliases, second \in SecondFields}
    \cup {<<Field(K_logLevel, c)>> \o second :
            c \in MetaChains, second \in SecondFields}

GenInit ==
    /\ zodSchema \in GenSchemas
    /\ pc = "SCHEMA"
    /\ rawDenoArgs = << >>
    /\ options = NoCallerOptions
    /\ ensuredParseOptions = EmptyParseOptions
    /\ finalHelpSections = << >>
    /\ rawArgs = NoProps
    /\ camelCasedArgs = NoProps
    /\ validatedArgs = NoProps
    /\ issues = << >>
    /\ stdout = << >>
    /\ stderr = << >>
    /\ exitCode = NoExit
    /\ trace = << >>
    /\ key = << >>
    /\ kebabKey = << >>
    /\ camelKey = << >>
    /\ generatedParseOptions = EmptyParseOptions
    /\ generatedHelpSections = << >>
    /\ console = << >>

\* line 748: return { generatedParseOptions, generatedHelpSections }
Generate ==
    /\ pc = "SCHEMA"
    /\ LET generated == generateOptionsFromSchema(zodSchema)
       IN  /\ ~generated.thrown
           /\ generatedParseOptions' = generated.generatedParseOptions
           /\ generatedHelpSections' = generated.generatedHelpSections
    /\ pc' = "GENERATED"
    /\ UNCHANGED <<zodSchema, rawDenoArgs, options, ensuredParseOptions,
                   finalHelpSections, rawArgs, camelCasedArgs, validatedArgs, issues,
                   stdout, stderr, exitCode, trace, nameVars, console>>

\* line 727: isOptional() runs a transform that throws; nothing is returned
GenerateThrows ==
    /\ pc = "SCHEMA"
    /\ generateOptionsFromSchema(zodSchema).thrown
    /\ pc' = "GENERATE_THREW"
    /\ UNCHANGED <<zodSchema, rawDenoArgs, options, ensuredParseOptions,
                   finalHelpSections, rawArgs, camelCasedArgs, validatedArgs, issues,
                   stdout, stderr, exitCode, trace, nameVars, genVars, console>>

GenNext == Generate \/ GenerateThrows

GenSpec == GenInit /\ [][GenNext]_vars

-----------------------------------------------------------------------------
(* Introspection of two fields: generateOptionsFromSchema applied to every  *)
(* schema of two fields whose keys are distinct strings of at most          *)
(* MaxPairKeyLen characters (line 651-653: for (const key in schema.shape), *)
(* camelToKebab(key)).                                                      *)

\* the longest key of a two-field schema
MaxPairKeyLen == 2

PairChars == {"a", "b", "B", "-"}

PairKeys == UNION {[1..n -> PairChars] : n \in 1..MaxPairKeyLen}

FirstDefs == {ZodDefault(ZodString, "info"), ZodBoolean}

SecondDefs ==
    {ZodDefault(ZodString, "debug"), ZodBoolean,
     ZodEffects(ZodOptional(ZodString), {}, {Undefined})}

PairSchemas ==
    UNION {{<<Field(k1, d1), Field(k2, d2)>> :
                k2 \in PairKeys \ {k1}, d1 \in FirstDefs, d2 \in SecondDefs} :
            k1 \in PairKeys}

PairInit ==
    /\ zodSchema \in PairSchemas
    /\ pc = "SCHEMA"
    /\ rawDenoArgs = << >>
    /\ options = NoCallerOptions
    /\ ensuredParseOptions = EmptyParseOptions
    /\ finalHelpSections = << >>
    /\ rawArgs = NoProps
    /\ camelCasedArgs = NoProps
    /\ validatedArgs = NoProps
    /\ issues = << >>
    /\ stdout = << >>
    /\ stderr = << >>
    /\ exitCode = NoExit
    /\ trace = << >>
    /\ key = << >>
    /\ kebabKey = << >>
    /\ camelKey = << >>
    /\ generatedParseOptions = EmptyParseOptions
    /\ generatedHelpSections = << >>
    /\ console = << >>

PairNext == Generate \/ GenerateThrows

PairSpec == PairInit /\ [][PairNext]_vars

-----------------------------------------------------------------------------
(* Vocabulary of the properties.                                            *)

Terminal == {"HELP_EMITTED", "VALIDATED", "VALIDATION_FAILED"}

Parsed == pc \in {"PARSED", "HELP_REQUESTED", "VALIDATING"} \cup Terminal

ExternalName(field) == camelToKebab(field.key)

Fields == {zodSchema[i] : i \in DOMAIN zodSchema}

\* the alias tokens that the configuration in use maps to the field's flag
AliasTokens(field) ==
    {a \in KeySet(ensuredParseOptions.alias) :
        Get(ensuredParseOptions.alias, a) = ExternalName(field)}

\* the tokens that name the field: its long flag and its aliases
FlagsOf(field) ==
    {LongFlag(ExternalName(field))} \cup {ShortFlag(a) : a \in AliasTokens(field)}

Occurrences(flags) == {i \in DOMAIN rawDenoArgs : rawDenoArgs[i] \in flags}

SuppliedBy(flags) == Occurrences(flags) # {}

ValueAfter(i) ==
    IF i < Len(rawDenoArgs) /\ rawDenoArgs[i + 1].kind = "value"
    THEN rawDenoArgs[i + 1].text
    ELSE ""

Max(S) == CHOOSE x \in S : \A y \in S : y <= x

RECURSIVE BaseTypeName(_)
BaseTypeName(def) ==
    IF IsWrapper(def.typeName) THEN BaseTypeName(def.innerType) ELSE def.typeName

RECURSIVE HasDefault(_)
HasDefault(def) ==
    IF def.typeName = "ZodDefault" THEN TRUE
    ELSE IF IsWrapper(def.typeName) THEN HasDefault(def.innerType)
    ELSE FALSE

RECURSIVE DeclaredDefault(_)
DeclaredDefault(def) ==
    IF def.typeName = "ZodDefault" THEN def.defaultValue
    ELSE DeclaredDefault(def.innerType)

\* what the user typed for a field, going by the last of its flags
UserValue(field) ==
    IF BaseTypeName(field.def) = "ZodBoolean" THEN BTrue
    ELSE ValueAfter(Max(Occurrences(FlagsOf(field))))

HelpSupplied == SuppliedBy(HelpFlags)

HelpPrinted == \E i \in DOMAIN stdout : stdout[i].kind \in {"help", "customHelp"}

-----------------------------------------------------------------------------
(* C1.  Whenever --help or -h is among the tokens, the invocation prints    *)
(* the help and exits with status 0 and never enters validation, whatever   *)
(* the schema and the other tokens are.                                     *)
C1_HelpBeforeValidation ==
    HelpSupplied =>
        /\ pc \notin {"VALIDATING", "VALIDATED", "VALIDATION_FAILED"}
        /\ pc = "HELP_EMITTED" => (HelpPrinted /\ exitCode = HelpExitCode)

Paths ==
    {<<"INIT", "PARSED", "HELP_REQUESTED", "HELP_EMITTED">>,
     <<"INIT", "PARSED", "VALIDATING", "VALIDATED">>,
     <<"INIT", "PARSED", "VALIDATING", "VALIDATION_FAILED">>}

OnOnePath ==
    /\ \E p \in Paths : Len(trace) <= Len(p) /\ trace = SubSeq(p, 1, Len(trace))
    /\ pc = trace[Len(trace)]
    /\ \A i, j \in DOMAIN trace : i # j => trace[i] # trace[j]
    /\ pc = "HELP_EMITTED" => exitCode = HelpExitCode
    /\ pc = "VALIDATION_FAILED" => exitCode = FailureExitCode
    /\ pc = "VALIDATED" => exitCode = NoExit
    /\ pc \notin Terminal => exitCode = NoExit

(* C2.  The invocation follows INIT -> PARSED and then exactly one of the   *)
(* three paths to HELP_EMITTED (exit 0), VALIDATED (result returned, no     *)
(* exit) or VALIDATION_FAILED (exit 1); no state occurs twice, every step   *)
(* moves on to a state not visited before, and no step leaves a terminal    *)
(* state (nothing is retried).                                              *)
C2_SinglePass ==
    /\ []OnOnePath
    /\ [][pc \notin Terminal /\ pc' \notin Range(trace) /\ trace' = Append(trace, pc')]_vars

C2_Witness == pc = "VALIDATED" /\ Len(trace) = 4 /\ Len(validatedArgs) > 0


(* C3.  A field given both by its long flag and by its alias, with          *)
(* different values, reaches validation with the long flag's value under    *)
(* its canonical key, in whichever order the two were typed.                *)
C3_LongFlagWins ==
    Parsed =>
        \A f \in Fields : \A a \in AliasTokens(f) : \A v1, v2 \in Values :
            LET long == <<LongFlag(ExternalName(f)), Value(v1)>>
                short == <<ShortFlag(a), Value(v2)>>
            IN  (/\ v1 # v2
                 /\ BaseTypeName(f.def) # "ZodBoolean"
                 /\ rawDenoArgs \in {long \o short, short \o long})
                => Get(camelCasedArgs, f.key) = v1

C6_DefaultFillsUnsupplied ==
    /\ \A f \in Fields :
          (HasDefault(f.def) /\ ~SuppliedBy(FlagsOf(f)))
          => /\ pc = "VALIDATED" => Get(validatedArgs, f.key) = DeclaredDefault(f.def)
             /\ (Parsed /\ ~Supplied(options.parseArgsOptions))
                => /\ Get(ensuredParseOptions.default, ExternalName(f))
                         = DeclaredDefault(f.def)
                   /\ Get(camelCasedArgs, f.key) = DeclaredDefault(f.def)
    /\ (/\ pc \in Terminal
        /\ zodSchema = ExampleSchema
        /\ rawDenoArgs = <<LongFlag(K_name), Value("Alice")>>)
       => /\ pc = "VALIDATED"
          /\ validatedArgs = <<<<K_logLevel, "info">>, <<K_name, "Alice">>>>

C6_Witness ==
    /\ pc = "VALIDATED"
    /\ zodSchema = ExampleSchema
    /\ rawDenoArgs = <<LongFlag(K_name), Value("Alice")>>
    /\ ExternalName(F_logLevel) # K_logLevel
    /\ Get(validatedArgs, K_logLevel) = "info"

RECURSIVE HasOptional(_)
HasOptional(def) ==
    IF def.typeName = "ZodOptional" THEN TRUE
    ELSE IF IsWrapper(def.typeName) THEN HasOptional(def.innerType)
    ELSE FALSE

RequiredMissing(f) ==
    /\ ~HasDefault(f.def)
    /\ ~HasOptional(f.def)
    /\ ~SuppliedBy(FlagsOf(f))

HasHelpFlag(parseOptions) ==
    /\ HelpKey \in Range(parseOptions.boolean)
    /\ Get(parseOptions.alias, HelpAlias) = HelpKey

(* C8.  The configuration handed to the parser, generated or supplied by    *)
(* the caller, lists help among its boolean flags and maps the alias h to   *)
(* help; so does every configuration generated from a schema.               *)
C8_HelpFlagAlwaysPresent ==
    Parsed =>
        /\ HasHelpFlag(ensuredParseOptions)
        /\ HasHelpFlag(generateOptionsFromSchema(zodSchema).generatedParseOptions)

C8_Witness ==
    /\ Parsed
    /\ Supplied(options.parseArgsOptions)
    /\ Has(options.parseArgsOptions[1].alias, HelpAlias)
    /\ Get(options.parseArgsOptions[1].alias, HelpAlias) = K_host
    /\ ~options.parseArgsOptions[1].booleanIsArray
    /\ HasHelpFlag(ensuredParseOptions)

IsCamelCase(k) ==
    \A i \in DOMAIN k :
        IsUpper(k[i]) => (i > 1 /\ (IsLower(k[i - 1]) \/ IsDigit(k[i - 1])))

(* C9.  kebabToCamel(camelToKebab(k)) = k for every field key k of letters  *)
(* and digits with camelCase boundaries: each uppercase letter of k stands  *)
(* at a boundary, directly after a lowercase letter or a digit.             *)
C9_RoundTripCamelCaseKeys == (pc = "CAMEL" /\ IsCamelCase(key)) => camelKey = key

C9_Witness ==
    /\ pc = "CAMEL"
    /\ IsCamelCase(key)
    /\ \E i \in DOMAIN key : IsUpper(key[i])
    /\ kebabKey # key
    /\ camelKey = key

DeclaredKeys == {f.key : f \in Fields}

(* C10.  After normalisation the keys of the map handed to validation are   *)
(* exactly "_", help and the declared field keys that have a value.         *)
C10_OnlyDeclaredKeys ==
    Parsed =>
        /\ {Sentinel, HelpKey} \subseteq KeySet(camelCasedArgs)
        /\ KeySet(camelCasedArgs) \subseteq {Sentinel, HelpKey} \cup DeclaredKeys

HasKebabBoundary(k) ==
    \E i \in DOMAIN k : k[i] = "-" /\ i < Len(k) /\ IsLower(k[i + 1])

TypedFlagKeys ==
    {kebabToCamel(rawDenoArgs[i].name) :
        i \in {j \in DOMAIN rawDenoArgs : rawDenoArgs[j].kind # "value"}}

(* C10, amended: the map holds "_", help and every declared field key that  *)
(* the parser gave a value; no key with a hyphen directly before a          *)
(* lowercase letter is left; the alias tokens the parser recorded are not   *)
(* removed, and every further key is a name of the parser configuration or  *)
(* the camelCase form of a flag the user typed.                             *)
C10_NormalisedKeys ==
    Parsed =>
        /\ {Sentinel, HelpKey} \subseteq KeySet(camelCasedArgs)
        /\ \A f \in Fields :
              Has(rawArgs, ExternalName(f)) => Has(camelCasedArgs, f.key)
        /\ \A k \in KeySet(camelCasedArgs) : ~HasKebabBoundary(k)
        /\ KeySet(camelCasedArgs) \subseteq
              {Sentinel, HelpKey} \cup DeclaredKeys
              \cup KeySet(ensuredParseOptions.alias)
              \cup Range(ensuredParseOptions.string)
              \cup Range(ensuredParseOptions.boolean)
              \cup TypedFlagKeys
        /\ \A a \in KeySet(ensuredParseOptions.alias) :
              Has(rawArgs, a) => Has(camelCasedArgs, a)

C10_Witness ==
    /\ Parsed
    /\ zodSchema = ExampleSchema
    /\ Has(rawArgs, ExternalName(F_logLevel))
    /\ Has(camelCasedArgs, K_logLevel)
    /\ ~Has(camelCasedArgs, ExternalName(F_logLevel))
    /\ Has(camelCasedArgs, <<"l">>)
    /\ Has(camelCasedArgs, HelpAlias)


BothSupplied == Supplied(options.parseArgsOptions) /\ Supplied(options.helpSections)

NotGenerated ==
    generatedParseOptions = EmptyParseOptions /\ generatedHelpSections = << >>

\* the configuration handed to the parser is the given one plus the help flag
BuiltFrom(parseOptions) ==
    /\ ensuredParseOptions.string = parseOptions.string
    /\ ensuredParseOptions.default = parseOptions.default
    /\ \A a \in KeySet(parseOptions.alias) \ {HelpAlias} :
          Get(ensuredParseOptions.alias, a) = Get(parseOptions.alias, a)

(* C11.  With both a parser configuration and help sections supplied the    *)
(* schema is never introspected and both are used; with only one supplied   *)
(* the other is generated from the schema and the supplied one is used.     *)
C11_GenerationBypassed ==
    /\ BothSupplied => (NotGenerated /\ pc # "THREW")
    /\ Parsed =>
          /\ IF Supplied(options.parseArgsOptions)
             THEN BuiltFrom(options.parseArgsOptions[1])
             ELSE /\ HasHelpFlag(generatedParseOptions)
                  /\ BuiltFrom(generatedParseOptions)
          /\ IF Supplied(options.helpSections)
             THEN finalHelpSections = options.helpSections[1]
             ELSE /\ Len(generatedHelpSections) = 1
                  /\ finalHelpSections = generatedHelpSections

C11_Witness ==
    /\ Parsed
    /\ BothSupplied
    /\ zodSchema = TagsSchema
    /\ NotGenerated
    /\ finalHelpSections = CallerTagsSections

\* the option labels of a printed help text, and those of a list of sections
OptionLabels(lines) ==
    LET options_ == SelectSeq(lines, LAMBDA l : l.line = "option")
    IN  [i \in DOMAIN options_ |-> options_[i].opt]

RECURSIVE SectionLabels(_)
SectionLabels(sections) ==
    IF Len(sections) = 0 THEN << >>
    ELSE [i \in DOMAIN Head(sections).options |-> Head(sections).options[i][1]]
         \o SectionLabels(Tail(sections))

BuiltInHelpEmitted ==
    /\ pc = "HELP_EMITTED"
    /\ ~options.customHelpGeneration
    /\ Len(stdout) > 0
    /\ stdout[Len(stdout)].kind = "help"

PrintedLabels == OptionLabels(stdout[Len(stdout)].lines)

Positions(kinds) == {i \in DOMAIN console : console[i] \in kinds}

(* C13.  On every failure path of validation, structured issues or an       *)
(* unexpected exception, the hint pointing to --help is printed after the   *)
(* report and before the exit with status 1, and nothing is returned.       *)
C13_HintAfterReport ==
    /\ pc = "VALIDATION_FAILED" =>
          /\ exitCode = 1
          /\ validatedArgs = NoProps
          /\ Positions({"hint"}) = {Len(console)}
          /\ Positions({"issue", "notZodError"}) # {}
          /\ \A i \in Positions({"issue", "notZodError", "validationFailed"}) :
                i < Len(console)
    /\ pc # "VALIDATED" => validatedArgs = NoProps
    /\ pc = "VALIDATED" => Positions({"hint", "issue", "notZodError"}) = {}

C13_Witness ==
    /\ pc = "VALIDATION_FAILED"
    /\ zodSchema = AmountSchema
    /\ Get(camelCasedArgs, K_amount) = "Bob"
    /\ console = <<"validationFailed", "isZodError", "issue", "hint">>

\* the transform of a field throws on the value validation receives for it
RECURSIVE ThrowsOn(_, _)
ThrowsOn(def, v) ==
    CASE def.typeName = "ZodEffects" ->
            \/ ThrowsOn(def.innerType, v)
            \/ /\ v \in def.throwsOn
               /\ \/ v # Undefined
                  \/ isOptional(def.innerType)
      [] IsWrapper(def.typeName) -> v # Undefined /\ ThrowsOn(def.innerType, v)
      [] OTHER -> FALSE

ValidationThrows == \E f \in Fields : ThrowsOn(f.def, Get(camelCasedArgs, f.key))

(* C14.  An exception raised inside validation that is not a ZodError does  *)
(* not reach the caller: it is reported generically, without issue lines,   *)
(* and the process exits with status 1.                                     *)
C14_UnexpectedErrorReported ==
    (ValidationThrows /\ "VALIDATING" \in Range(trace) /\ pc # "VALIDATING")
    => /\ pc = "VALIDATION_FAILED"
       /\ exitCode = 1
       /\ validatedArgs = NoProps
       /\ issues = << >>
       /\ console = <<"validationFailed", "notZodError", "hint">>

C14_Witness ==
    /\ pc = "VALIDATION_FAILED"
    /\ zodSchema = AmountSchema
    /\ Get(camelCasedArgs, K_amount) = "Alice"
    /\ "notZodError" \in Range(console)


-----------------------------------------------------------------------------
(* Properties of the generated configuration (GenSpec).                     *)

Generated == pc = "GENERATED"

DeclaredAlias(field) == field.def.meta.alias

\* the fields that declare the alias token a, by position
Declaring(a) == {i \in DOMAIN zodSchema : DeclaredAlias(zodSchema[i]) = a}

AliasTable == generatedParseOptions.alias

(* C15.  In every generated configuration each alias token maps to exactly  *)
(* one externalName, and the alias of every field that declares one maps to *)
(* that field's own externalName, also when two fields declare the same     *)
(* alias or a field declares h.                                             *)
C15_AliasOfEveryField ==
    Generated =>
        /\ Cardinality(KeySet(AliasTable)) = Len(AliasTable)
        /\ \A f \in Fields :
              DeclaredAlias(f) # << >>
              => Get(AliasTable, DeclaredAlias(f)) = ExternalName(f)

(* C15, amended: each alias token maps to exactly one externalName; h maps  *)
(* to help; any other declared token maps to the externalName of the last   *)
(* field that declares it, so a field's alias maps to the field's own       *)
(* externalName unless the alias is h or a later field declares it too.     *)
C15_AliasOfLastField ==
    Generated =>
        /\ Cardinality(KeySet(AliasTable)) = Len(AliasTable)
        /\ KeySet(AliasTable) =
              {HelpAlias} \cup ({DeclaredAlias(f) : f \in Fields} \ {<< >>})
        /\ Get(AliasTable, HelpAlias) = HelpKey
        /\ \A a \in KeySet(AliasTable) \ {HelpAlias} :
              Get(AliasTable, a) = ExternalName(zodSchema[Max(Declaring(a))])

C15_Witness ==
    /\ Generated
    /\ Len(zodSchema) = 2
    /\ DeclaredAlias(zodSchema[1]) = GenAlias
    /\ DeclaredAlias(zodSchema[2]) = GenAlias
    /\ Get(AliasTable, GenAlias) = ExternalName(zodSchema[2])
    /\ Get(AliasTable, GenAlias) # ExternalName(zodSchema[1])

\* the names a field contributes to the flag lists
FlagNames(field) ==
    {ExternalName(field)} \cup ({DeclaredAlias(field)} \ {<< >>})

(* C16.  For every schema each field's externalName and alias token are in  *)
(* exactly one of the string and boolean lists: the boolean list iff the    *)
(* field's base type is boolean, the string list otherwise; no name is in   *)
(* both lists.                                                              *)
C16_OneFlagList ==
    Generated =>
        /\ \A f \in Fields : \A n \in FlagNames(f) :
              IF BaseTypeName(f.def) = "ZodBoolean"
              THEN /\ n \in Range(generatedParseOptions.boolean)
                   /\ n \notin Range(generatedParseOptions.string)
              ELSE /\ n \in Range(generatedParseOptions.string)
                   /\ n \notin Range(generatedParseOptions.boolean)
        /\ Range(generatedParseOptions.string)
              \cap Range(generatedParseOptions.boolean) = {}

(* C17.  For every field that is a chain of optional, nullable, default and *)
(* transform/refinement wrappers around a base type, introspection ends     *)
(* with the field classified by its base type, not by a wrapper.            *)
C17_ClassifiedByBase ==
    pc # "SCHEMA" =>
        /\ Generated
        /\ \A f \in Fields :
              /\ (ExternalName(f) \in Range(generatedParseOptions.boolean))
                    <=> (BaseTypeName(f.def) = "ZodBoolean")
              /\ (ExternalName(f) \in Range(generatedParseOptions.string))
                    <=> (BaseTypeName(f.def) # "ZodBoolean")

(* C18.  Introspection is total: it completes for every schema, and a field *)
(* whose base type is none of string, boolean, number, enum is a string     *)
(* flag.                                                                    *)
C18_IntrospectionTotal ==
    /\ pc # "GENERATE_THREW"
    /\ Generated =>
          \A f \in Fields :
              BaseTypeName(f.def) = "ZodArray"
              => ExternalName(f) \in Range(generatedParseOptions.string)


\* the label of a field's generated help line and the text of that line
OptionLabel(field) ==
    <<"-", "-">> \o ExternalName(field)
    \o (IF DeclaredAlias(field) # << >>
        THEN <<",", " ", "-">> \o DeclaredAlias(field)
        ELSE << >>)

HelpTextOf(field) == Get(generatedHelpSections[1].options, OptionLabel(field))

MarkedRequired(field) == " (required)" \in Range(HelpTextOf(field))

RECURSIVE HasModifier(_)
HasModifier(def) ==
    IF def.typeName \in {"ZodOptional", "ZodNullable", "ZodDefault"} THEN TRUE
    ELSE IF IsWrapper(def.typeName) THEN HasModifier(def.innerType)
    ELSE FALSE

\* what a field yields for an absent value, layer by layer: a default's value,
\* undefined through an optional, or a rejection (by the base type or by a
\* refinement)
Rejected == "<rejected>"

RECURSIVE AbsentValue(_)
AbsentValue(def) ==
    CASE def.typeName = "ZodOptional" -> Undefined
      [] def.typeName = "ZodDefault" -> def.defaultValue
      [] def.typeName = "ZodNullable" -> AbsentValue(def.innerType)
      [] def.typeName = "ZodEffects" ->
            LET inner == AbsentValue(def.innerType)
            IN  IF inner \in def.rejects THEN Rejected ELSE inner
      [] OTHER -> Rejected

(* C19.  A field's help line carries the required marker iff no optional,   *)
(* nullable or default modifier is present anywhere in its wrapper chain.   *)
C19_RequiredIffNoModifier ==
    Generated => \A f \in Fields : MarkedRequired(f) <=> ~HasModifier(f.def)

(* C19, amended: a field's help line carries the required marker iff the    *)
(* original field does not accept an absent value: an optional or default   *)
(* modifier in the chain makes the field non-required unless a refinement   *)
(* around it rejects the absent value, and a nullable modifier alone leaves *)
(* the field required.                                                      *)
C19_RequiredIffAbsentRejected ==
    Generated =>
        \A f \in Fields : MarkedRequired(f) <=> (AbsentValue(f.def) = Rejected)

C19_Witness ==
    /\ Generated
    /\ zodSchema[1].def.typeName = "ZodNullable"
    /\ zodSchema[1].def.innerType.typeName = "ZodString"
    /\ MarkedRequired(zodSchema[1])

\* the default values the layers of a chain declare
RECURSIVE DeclaredDefaults(_)
DeclaredDefaults(def) ==
    IF ~IsWrapper(def.typeName) THEN {}
    ELSE (IF def.typeName = "ZodDefault" THEN {def.defaultValue} ELSE {})
         \cup DeclaredDefaults(def.innerType)

DefaultTable == generatedParseOptions.default

(* C20.  The generated default table has an entry for a field's             *)
(* externalName iff the field declares a default somewhere in its wrapper   *)
(* chain, the entry's value is the declared default, and the table has no   *)
(* other entries.                                                           *)
C20_DefaultTable ==
    Generated =>
        /\ KeySet(DefaultTable) = {ExternalName(f) : f \in {g \in Fields : HasDefault(g.def)}}
        /\ \A f \in Fields :
              HasDefault(f.def)
              => Get(DefaultTable, ExternalName(f)) \in DeclaredDefaults(f.def)

C20_Witness ==
    /\ Generated
    /\ Len(zodSchema) = 2
    /\ zodSchema[1].def.typeName = "ZodEffects"
    /\ zodSchema[1].def.innerType.typeName = "ZodDefault"
    /\ DefaultTable = <<<<ExternalName(zodSchema[1]), "debug">>>>

\* the metadata of one layer: meta().description, else .description (line
\* 664-665), and meta().alias
LayerDescription(def) ==
    IF def.meta.description # "" THEN def.meta.description ELSE def.description

\* the first non-empty value, from the outermost layer inwards
RECURSIVE FirstAlias(_)
FirstAlias(def) ==
    IF def.meta.alias # << >> THEN def.meta.alias
    ELSE IF IsWrapper(def.typeName) THEN FirstAlias(def.innerType)
    ELSE << >>

RECURSIVE FirstDescription(_)
FirstDescription(def) ==
    IF LayerDescription(def) # "" THEN LayerDescription(def)
    ELSE IF IsWrapper(def.typeName) THEN FirstDescription(def.innerType)
    ELSE ""

LabelWith(field, alias) ==
    <<"-", "-">> \o ExternalName(field)
    \o (IF alias # << >> THEN <<",", " ", "-">> \o alias ELSE << >>)

HelpOptions == generatedHelpSections[1].options

(* C21.  A field's description and alias are those of the first layer, from *)
(* the outermost layer inwards, that supplies a non-empty value: the help   *)
(* line of every field is labelled with that alias and starts with that     *)
(* description, and the alias is in the alias table, also when only an      *)
(* inner layer carries the metadata.                                        *)
C21_MetadataFromFirstLayer ==
    Generated =>
        \A f \in Fields :
            /\ Has(HelpOptions, LabelWith(f, FirstAlias(f.def)))
            /\ Get(HelpOptions, LabelWith(f, FirstAlias(f.def)))[1]
                  = FirstDescription(f.def)
            /\ FirstAlias(f.def) # << >> => Has(AliasTable, FirstAlias(f.def))

RECURSIVE BaseDef(_)
BaseDef(def) == IF IsWrapper(def.typeName) THEN BaseDef(def.innerType) ELSE def

\* the pieces of a help text after the description, as the claim lists them
HintPiece(field) ==
    LET base == BaseDef(field.def)
    IN  CASE base.typeName = "ZodString" -> <<" (", "<string>", ")">>
          [] base.typeName = "ZodNumber" -> <<" (", "<number>", ")">>
          [] base.typeName = "ZodEnum" ->
                <<" (", "<">> \o Join(base.values, "|") \o <<">", ")">>
          [] OTHER -> << >>

DefaultPiece(field) ==
    IF HasDefault(field.def)
    THEN <<" (default: ", Get(DefaultTable, ExternalName(field)), ")">>
    ELSE << >>

RequiredPiece(field) ==
    IF AbsentValue(field.def) = Rejected THEN <<" (required)">> ELSE << >>

HelpLineOf(field) ==
    <<OptionLabel(field),
      <<LayerDescription(field.def)>> \o HintPiece(field) \o DefaultPiece(field)
         \o RequiredPiece(field)>>

(* C22.  The generated help section has one line per field, in the order of *)
(* the schema, and the --help, -h line after them; a field's line is the    *)
(* label --<externalName> (with ", -<alias>" iff it has an alias), then the *)
(* description, the type hint (none for booleans), the default annotation   *)
(* iff a default exists and the required marker iff the field is required.  *)
C22_HelpLineOrder ==
    Generated =>
        /\ Len(generatedHelpSections) = 1
        /\ HelpOptions =
              [i \in DOMAIN zodSchema |-> HelpLineOf(zodSchema[i])]
              \o <<<<HelpOptionName, <<"show help">>>>>>

C22_Witness ==
    /\ Generated
    /\ Len(zodSchema) = 2
    /\ DeclaredAlias(zodSchema[1]) = GenAlias
    /\ zodSchema[1].def.typeName = "ZodDefault"
    /\ zodSchema[1].def.innerType.typeName = "ZodEnum"
    /\ BaseDef(zodSchema[2].def).typeName = "ZodBoolean"
    /\ HelpOptions[1][2] = <<"level", " (", "<", "debug", "|", "info", ">", ")",
                             " (default: ", "info", ")">>
    /\ HelpOptions[2][2] = <<"verbose", " (required)">>
    /\ HelpOptions[3][1] = HelpOptionName

-----------------------------------------------------------------------------
(* Properties of one invocation, continued (Spec).                          *)

CustomSupplied == options.customHelpGeneration

CustomReturns == CustomSupplied /\ ~options.customHelpThrows

(* C23.  When help is requested and a custom renderer is supplied (and      *)
(* returns a text), the invocation ends with exit status 0 having printed   *)
(* exactly the renderer's output for (schema, commandName,                  *)
(* commandDescription): no built-in help text, no warning, nothing else,    *)
(* whether the help sections were supplied or generated.                    *)
C23_CustomHelpOnly ==
    (CustomReturns /\ "HELP_REQUESTED" \in Range(trace) /\ pc # "HELP_REQUESTED")
    => /\ pc = "HELP_EMITTED"
       /\ exitCode = HelpExitCode
       /\ stdout = <<[kind |-> "customHelp",
                      lines |-> customHelpGeneration(zodSchema, CommandName,
                                                     options.commandDescription)]>>
       /\ stderr = << >>
       /\ console = <<"customHelp">>

C23_Witness ==
    /\ pc = "HELP_EMITTED"
    /\ CustomReturns
    /\ Supplied(options.helpSections)
    /\ exitCode = HelpExitCode
    /\ Len(stdout) = 1
    /\ stdout[1].kind = "customHelp"
    /\ stdout[1].lines[2].title = "example"

\* the catch block found a ZodError (line 874)
ZodErrorReported == pc = "VALIDATION_FAILED" /\ "isZodError" \in Range(console)

IsIssueLine(out) == out.kind = "issue"

\* the path segments with a dot between neighbours
RECURSIVE Dotted(_)
Dotted(path) ==
    IF Len(path) = 0 THEN << >>
    ELSE IF Len(path) = 1 THEN path[1]
    ELSE Dotted(SubSeq(path, 1, Len(path) - 1)) \o <<".">> \o path[Len(path)]

ReturnedIssues == ZodParse(zodSchema, camelCasedArgs).issues

(* C24.  On a structured validation failure the report has exactly one line *)
(* per issue, in the order validation returned the issues, and the line of  *)
(* an issue shows its path segments joined with dots, its code and its      *)
(* message.                                                                 *)
C24_OneLinePerIssue ==
    ZodErrorReported =>
        /\ Len(ReturnedIssues) > 0
        /\ SelectSeq(stderr, IsIssueLine) =
              [i \in DOMAIN ReturnedIssues |->
                  [kind |-> "issue",
                   path |-> Dotted(ReturnedIssues[i].path),
                   code |-> ReturnedIssues[i].code,
                   message |-> ReturnedIssues[i].message]]

C24_Witness ==
    /\ ZodErrorReported
    /\ SelectSeq(stderr, IsIssueLine) =
          <<[kind |-> "issue", path |-> K_amount \o <<".">> \o K_unit,
             code |-> "custom", message |-> "must be positive"]>>

\* the alias-expanded map of line 799-823, the input of case conversion
tempAliasedArgs == ExpandAliases(rawArgs, ensuredParseOptions.alias)

NamedKeys(obj) == KeySet(obj) \ {Sentinel}

-----------------------------------------------------------------------------
(* Properties of two-field schemas (PairSpec).                              *)

(* C26.  Distinct field keys of one schema have distinct externalNames, so  *)
(* every field keeps entries of its own: a help line per field, the field's *)
(* own default in the default table, and its name in the list of its own    *)
(* type only.                                                               *)
C26_DistinctExternalNames ==
    Generated =>
        /\ \A i, j \in DOMAIN zodSchema :
              i # j => ExternalName(zodSchema[i]) # ExternalName(zodSchema[j])
        /\ Len(HelpOptions) = Len(zodSchema) + 1
        /\ \A f \in Fields :
              /\ HasDefault(f.def)
                    => Get(DefaultTable, ExternalName(f)) = DeclaredDefault(f.def)
              /\ ~HasDefault(f.def) => ~Has(DefaultTable, ExternalName(f))
              /\ (ExternalName(f) \in Range(generatedParseOptions.boolean))
                    <=> (BaseTypeName(f.def) = "ZodBoolean")

-----------------------------------------------------------------------------
(* Properties of invocations that spell a flag both ways (MergeSpec).       *)

(* C27.  Case conversion drops or replaces no value: every key of the       *)
(* alias-expanded map other than _ has its own value under its camelCase    *)
(* name in the converted map, also when two keys of the map, such as        *)
(* log-level and logLevel, convert to the same name.                        *)
C27_NoValueLostInConversion ==
    Parsed =>
        \A k \in NamedKeys(tempAliasedArgs) :
            Get(camelCasedArgs, kebabToCamel(k)) = Get(tempAliasedArgs, k)

-----------------------------------------------------------------------------
(* Properties of the generated configuration, continued (GenSpec).          *)

RECURSIVE DefaultLayers(_)
DefaultLayers(def) ==
    IF ~IsWrapper(def.typeName) THEN 0
    ELSE (IF def.typeName = "ZodDefault" THEN 1 ELSE 0) + DefaultLayers(def.innerType)

(* C28.  For a field with more than one default layer the default recorded  *)
(* in the generated configuration, and shown in the help text, is the value *)
(* validation itself produces for an absent field: the default of the       *)
(* outermost default layer.                                                 *)
C28_OutermostDefault ==
    Generated =>
        \A f \in Fields :
            DefaultLayers(f.def) > 1
            => /\ ParseField(f.def, Undefined).status = "ok"
               /\ Get(DefaultTable, ExternalName(f)) = ParseField(f.def, Undefined).value
               /\ Get(DefaultTable, ExternalName(f)) = DeclaredDefault(f.def)
               /\ ParseField(f.def, Undefined).value \in Range(HelpTextOf(f))

-----------------------------------------------------------------------------
(* Properties of several invocations in one process (SessionSpec).          *)

-----------------------------------------------------------------------------
(* Properties of one invocation, concluded (Spec).                          *)

(* C30.  No exception leaves processArgs: whether it is thrown while the    *)
(* configuration is derived from the schema or by the caller's help         *)
(* renderer, the invocation never ends with an exception in the caller's    *)
(* hands, and once it has ended it has reported and set an exit status.     *)
C30_NoExceptionEscapes ==
    /\ pc # "THREW"
    /\ "THREW" \notin Range(trace)
    /\ pc \in {"HELP_EMITTED", "VALIDATION_FAILED"} => exitCode # NoExit

====
